---- MODULE Spec2Model ----
(***************************************************************************)
(* Model of cargo-geiger's default scan (src/scan/default.rs): the         *)
(* dispatcher scan_unsafe, the collection step scan, the aggregation loop  *)
(* of scan_to_report, the log writer log_unsafe_functions and the two pure *)
(* helpers suffixed_file_name and build_compile_options.                   *)
(*                                                                         *)
(* Option<T> is modelled as a set with at most one element: {} is None and *)
(* {x} is Some(x).  A path is a sequence of atoms; the atoms "." and "/"   *)
(* are the characters '.' and '/', every other atom is a run of ordinary   *)
(* characters.                                                             *)
(***************************************************************************)
EXTENDS Integers, Sequences, FiniteSets, TLC

VARIABLES
    args,             \* ScanParameters.args: output_format, unsafe_fn_log, features_args
    graph,            \* the dependency graph, a set of edges <<from, to>>
    root_package_id,  \* the root of the walk
    pc,               \* the position of the one thread of control
    result,           \* what the command returned: Running, Ok, Err:<kind>, Panic
    calls,            \* the collaborators called so far, in order
    compile_options,  \* Option<CompileOptions> built by build_compile_options
    scan_details,     \* Option<ScanDetails> returned by scan
    todo,             \* the items package_metrics has still to yield
    report,           \* the SafetyReport under construction
    stdout,           \* the documents printed on standard output
    fs,               \* the files on disk: file name -> lines written through
    declared_writer,  \* the lines buffered in declared_writer
    contains_writer,  \* the lines buffered in contains_writer
    log_queue,        \* the write! calls log_unsafe_functions has still to make
    log_order,        \* the order in which report.packages is iterated
    log_ret,          \* the value log_unsafe_functions is returning
    faults,           \* history: the calls that failed
    new_file_name     \* Option: the last result of suffixed_file_name with its suffix

vars == <<args, graph, root_package_id, pc, result, calls, compile_options,
          scan_details, todo, report, stdout, fs, declared_writer,
          contains_writer, log_queue, log_order, log_ret, faults,
          new_file_name>>

(***************************************************************************)
(* Bounds of the model.                                                    *)
(***************************************************************************)
\* longest path, in atoms, given to suffixed_file_name
MaxPathLen == 5
\* longest feature list given to build_compile_options
MaxFeatures == 3
\* lines a BufWriter holds before a write flushes it (8 KiB in std, scaled)
BufCapacity == 2

(***************************************************************************)
(* The data the inputs are drawn from.                                     *)
(***************************************************************************)
Pkgs == {"p1", "p2", "p3"}
Files == {"f1", "f2", "f3"}
FileOrder == <<"f1", "f2", "f3">>

\* package_id.name: two ids may carry the same name (two versions of a crate)
PkgName(p) == IF p = "p1" THEN "app" ELSE "dep"

\* the files of each package's source tree
Owned(p) == CASE p = "p1" -> {"f1", "f2"}
              [] p = "p2" -> {"f3"}
              [] OTHER    -> {}

\* what the finder reports for a file it visited
FileMetrics(f) ==
    CASE f = "f1" -> [unsafe_count |-> 1, declared |-> <<"d1">>, contains |-> <<"c1">>]
      [] f = "f2" -> [unsafe_count |-> 2, declared |-> <<"d2">>, contains |-> <<>>]
      [] OTHER    -> [unsafe_count |-> 1, declared |-> <<"d3">>, contains |-> <<"c3">>]

\* PackageMetrics: rs_path_to_metrics, for the files S the finder visited
PackageMetricsOf(S) == [f \in S |-> FileMetrics(f)]

\* GeigerContext: package id -> Option<PackageMetrics>
GeigerContexts ==
    [Pkgs -> UNION {{ {} } \cup {{PackageMetricsOf(S)} : S \in SUBSET Owned(p)} : p \in Pkgs}]

WellFormedContext(ctx) ==
    \A p \in Pkgs : \A m \in ctx[p] : DOMAIN m \subseteq Owned(p)

Edges == {<<"p1", "p2">>, <<"p2", "p3">>, <<"p3", "p1">>}
Roots == {"p1", "p2"}

PathAtoms == {"report", "log", ".", "/"}
Paths == UNION {[1..n -> PathAtoms] : n \in 0..MaxPathLen}
DeclaredSuffix == <<".", "declared">>
ContainsSuffix == <<".", "contains">>
Suffixes == {DeclaredSuffix, ContainsSuffix}

FeatureNames == {"", "a", "b"}
FeatureLists == UNION {[1..n -> FeatureNames] : n \in 0..MaxFeatures}
FeaturesArgsSet ==
    [features : FeatureLists, all_features : BOOLEAN, no_default_features : BOOLEAN]

\* the log paths and feature arguments of the whole-command specification
LogPaths == {<<"report", ".", "log">>}
DefaultFeaturesArgs ==
    [features |-> <<"a", "b">>, all_features |-> TRUE, no_default_features |-> FALSE]

(***************************************************************************)
(* Sequence helpers.                                                       *)
(***************************************************************************)
RECURSIVE LastIndexOf(_, _)
LastIndexOf(s, a) ==
    IF s = <<>> THEN 0
    ELSE IF s[Len(s)] = a THEN Len(s)
    ELSE LastIndexOf(SubSeq(s, 1, Len(s) - 1), a)

RECURSIVE Flatten(_)
Flatten(ss) == IF ss = <<>> THEN <<>> ELSE Head(ss) \o Flatten(Tail(ss))

Perms(S) ==
    {s \in [1..Cardinality(S) -> S] : \A i, j \in 1..Cardinality(S) : s[i] = s[j] => i = j}

(***************************************************************************)
(* std::path::Path, as far as suffixed_file_name uses it.                  *)
(***************************************************************************)
\* Path::file_name: the last component if it is a normal one.  Trailing
\* separators and non-leading "." components are not components.
RECURSIVE file_name(_)
file_name(path) ==
    IF path = <<>> THEN {}
    ELSE IF path[Len(path)] = "/" THEN file_name(SubSeq(path, 1, Len(path) - 1))
    ELSE LET start == LastIndexOf(path, "/") + 1
             comp  == SubSeq(path, start, Len(path))
         IN  IF comp = <<".">>
             THEN IF start = 1 THEN {} ELSE file_name(SubSeq(path, 1, start - 1))
             ELSE IF comp = <<".", ".">> THEN {} ELSE {comp}

\* rsplit_file_at_dot: (before, after) the last '.', both Options
rsplit_file_at_dot(file) ==
    IF file = <<".", ".">> THEN [before |-> {file}, after |-> {}]
    ELSE LET i == LastIndexOf(file, ".")
         IN  IF i = 0 THEN [before |-> {}, after |-> {file}]
             ELSE IF i = 1 THEN [before |-> {file}, after |-> {}]
             ELSE [before |-> {SubSeq(file, 1, i - 1)},
                   after  |-> {SubSeq(file, i + 1, Len(file))}]

\* Path::file_stem: before.or(after)
file_stem(path) ==
    UNION {LET r == rsplit_file_at_dot(f)
           IN  IF r.before # {} THEN r.before ELSE r.after : f \in file_name(path)}

\* Path::extension: before.and(after)
extension(path) ==
    UNION {LET r == rsplit_file_at_dot(f)
           IN  IF r.before # {} THEN r.after ELSE {} : f \in file_name(path)}

\* Option::unwrap_or_default on an Option<&OsStr>
unwrap_or_default(opt) == IF opt = {} THEN <<>> ELSE CHOOSE x \in opt : TRUE

\* Option::unwrap, where the caller has made sure of Some
unwrap(opt) == CHOOSE x \in opt : TRUE

(***************************************************************************)
(* The pure functions of default.rs.                                       *)
(***************************************************************************)
\* suffixed_file_name: stem, then the suffix, then the extension
suffixed_file_name(path, suffix) ==
    LET stem == unwrap(file_stem(path))
        ext  == unwrap_or_default(extension(path))
    IN  stem \o suffix \o ext

\* Vec<String>::clone: a new vector with the same elements in the same order
clone(v) == [i \in 1..Len(v) |-> v[i]]

\* a build_compile_options that drops the empty feature names
build_compile_options_filtered(features_args) ==
    [mode                |-> "Check",
     features            |-> SelectSeq(features_args.features, LAMBDA f : f # ""),
     all_features        |-> features_args.all_features,
     no_default_features |-> features_args.no_default_features]

\* build_compile_options, once CompileOptions::new has succeeded
build_compile_options(features_args) ==
    [mode                |-> "Check",
     features            |-> clone(features_args.features),
     all_features        |-> features_args.all_features,
     no_default_features |-> features_args.no_default_features]

(***************************************************************************)
(* The collaborators of default.rs that live in other files of the crate.  *)
(***************************************************************************)
RECURSIVE Reach(_, _)
Reach(g, S) ==
    LET N == S \cup {e[2] : e \in {d \in g : d[1] \in S}}
    IN  IF N = S THEN S ELSE Reach(g, N)

\* the package ids reachable from the root
Reachable(g, r) == Reach(g, {r})

\* package_metrics: every reachable package once, with its Option<PackageMetrics>
package_metrics(geiger_context, g, r) ==
    {[package |-> [id |-> p, name |-> PkgName(p)], metrics |-> geiger_context[p]] :
        p \in Reachable(g, r)}

RECURSIVE SumSeq(_)
SumSeq(s) == IF s = <<>> THEN 0 ELSE Head(s) + SumSeq(Tail(s))

\* unsafe_stats: the summary of the package's files that are in rs_files_used
unsafe_stats(pm, rs_files_used) ==
    LET fl == SelectSeq(FileOrder, LAMBDA f : f \in DOMAIN pm /\ f \in rs_files_used)
    IN  [unsafe_count              |-> SumSeq([i \in 1..Len(fl) |-> pm[fl[i]].unsafe_count]),
         declared_unsafe_functions |-> Flatten([i \in 1..Len(fl) |-> pm[fl[i]].declared]),
         contains_unsafe_functions |-> Flatten([i \in 1..Len(fl) |-> pm[fl[i]].contains])]

\* the file paths present as keys in the finder's findings
ScannedFiles(geiger_context) ==
    UNION {DOMAIN m : m \in UNION {geiger_context[p] : p \in Pkgs}}

\* list_files_used_but_not_scanned
list_files_used_but_not_scanned(geiger_context, rs_files_used) ==
    rs_files_used \ ScannedFiles(geiger_context)

(***************************************************************************)
(* The steps of scan_to_report.                                            *)
(***************************************************************************)
EmptyMap == [x \in {} |-> x]

\* SafetyReport::default()
DefaultReport ==
    [packages |-> EmptyMap, packages_without_metrics |-> {},
     used_but_not_scanned_files |-> {}]

\* line 183 with every file of the package counted
unsafe_info_unfiltered(pm, rs_files_used) == unsafe_stats(pm, DOMAIN pm)

\* line 183: the summary is computed against the scan's rs_files_used
unsafe_info(pm, rs_files_used) == unsafe_stats(pm, rs_files_used)

\* the loop body without its continue
loop_body_no_continue(rep, item, rs_files_used) ==
    LET id == item.package.id
        pm == IF item.metrics = {} THEN EmptyMap ELSE unwrap(item.metrics)
        r1 == IF item.metrics = {}
              THEN [rep EXCEPT !.packages_without_metrics = @ \cup {id}]
              ELSE rep
    IN  [r1 EXCEPT !.packages =
            (id :> [package |-> item.package,
                    unsafety |-> unsafe_info(pm, rs_files_used)]) @@ @]

\* lines 176-188: one iteration of the aggregation loop
loop_body(rep, item, rs_files_used) ==
    LET id == item.package.id
    IN  IF item.metrics = {}
        THEN [rep EXCEPT !.packages_without_metrics = @ \cup {id}]
        ELSE [rep EXCEPT !.packages =
                 (id :> [package |-> item.package,
                         unsafety |-> unsafe_info(unwrap(item.metrics), rs_files_used)]) @@ @]

\* lines 190-193 with the compiled files taken as they are
used_but_not_scanned_files_all(geiger_context, rs_files_used) == rs_files_used

\* lines 190-193: the orphan files, collected into the report's set
used_but_not_scanned_files(geiger_context, rs_files_used) ==
    list_files_used_but_not_scanned(geiger_context, rs_files_used)

\* serde_json::to_string: the three top-level fields, the map as its entries
to_string(rep) ==
    <<"packages", {<<id, rep.packages[id]>> : id \in DOMAIN rep.packages},
      "packages_without_metrics", rep.packages_without_metrics,
      "used_but_not_scanned_files", rep.used_but_not_scanned_files>>

\* a println! that prints nothing
println_nothing(out, s) == out

\* line 197: println!
println(out, s) == Append(out, s)

\* a dispatcher that builds the report whatever the selector
dispatch_always_report(output_format) == "report"

\* lines 31-47: the match of scan_unsafe on the output format
dispatch(output_format) == IF output_format # {} THEN "report" ELSE "table"

(***************************************************************************)
(* std::io::BufWriter over a file, a line at a time.                       *)
(***************************************************************************)
\* the file after `lines` more lines have reached it
file_append(files, name, lines) == [files EXCEPT ![name] = @ \o lines]

\* File::create: the file exists and is empty
file_create(files, name) == (name :> <<>>) @@ files

\* the write! calls of the loop of log_unsafe_functions, for one iteration order
write_calls(rep, order) ==
    Flatten([i \in 1..Len(order) |->
        LET e == rep.packages[order[i]]
            d == e.unsafety.declared_unsafe_functions
            c == e.unsafety.contains_unsafe_functions
        IN  [j \in 1..Len(d) |-> [writer |-> "declared", line |-> <<PkgName(order[i]), d[j]>>]]
            \o
            [j \in 1..Len(c) |-> [writer |-> "contains", line |-> <<PkgName(order[i]), c[j]>>]]])

(***************************************************************************)
(* The state before the command runs.                                      *)
(***************************************************************************)
Idle ==
    /\ result = "Running"
    /\ calls = <<>>
    /\ compile_options = {}
    /\ scan_details = {}
    /\ todo = {}
    /\ report = {}
    /\ stdout = <<>>
    /\ fs = EmptyMap
    /\ declared_writer = <<>>
    /\ contains_writer = <<>>
    /\ log_queue = <<>>
    /\ log_order = <<>>
    /\ log_ret = "Ok"
    /\ faults = {}
    /\ new_file_name = {}

Init ==
    /\ args \in [output_format : {{}, {"Json"}},
                 unsafe_fn_log : {{}} \cup {{p} : p \in LogPaths},
                 features_args : {DefaultFeaturesArgs}]
    /\ graph \in SUBSET Edges
    /\ root_package_id \in Roots
    /\ pc = "start"
    /\ Idle

inputs == <<args, graph, root_package_id>>
logVars == <<fs, declared_writer, contains_writer, log_queue, log_order, log_ret>>

(***************************************************************************)
(* scan_unsafe.                                                            *)
(***************************************************************************)
\* lines 40-46: no format selector, the table renderer does the whole job
ScanToTable ==
    /\ pc = "start"
    /\ dispatch(args.output_format) = "table"
    /\ calls' = Append(calls, "scan_to_table")
    /\ \E r \in {"Ok", "Err:TableError"} : result' = r
    /\ pc' = "done"
    /\ UNCHANGED <<inputs, compile_options, scan_details, todo, report, stdout,
                   logVars, faults, new_file_name>>

\* lines 32-39: a format selector, scan_to_report is entered
ScanToReport ==
    /\ pc = "start"
    /\ dispatch(args.output_format) = "report"
    /\ calls' = Append(calls, "scan_to_report")
    /\ pc' = "scan"
    /\ UNCHANGED <<inputs, result, compile_options, scan_details, todo, report,
                   stdout, logVars, faults, new_file_name>>

(***************************************************************************)
(* scan.                                                                   *)
(***************************************************************************)
\* lines 103-105: CompileOptions::new fails and is unwrapped
ScanOptionsPanic ==
    /\ pc = "scan"
    /\ faults' = faults \cup {"CompileOptions::new"}
    /\ result' = "Panic"
    /\ pc' = "done"
    /\ UNCHANGED <<inputs, calls, compile_options, scan_details, todo, report,
                   stdout, logVars, new_file_name>>

\* lines 143-144: the resolver fails and its result is unwrapped
ScanResolveFail ==
    /\ pc = "scan"
    /\ compile_options' = {build_compile_options(args.features_args)}
    /\ calls' = Append(calls, "resolve_rs_file_deps")
    /\ faults' = faults \cup {"resolve_rs_file_deps"}
    /\ result' = "Panic"
    /\ pc' = "done"
    /\ UNCHANGED <<inputs, scan_details, todo, report, stdout, logVars, new_file_name>>

\* lines 145-150: the finder fails and ? returns its error
ScanFindFail ==
    /\ pc = "scan"
    /\ compile_options' = {build_compile_options(args.features_args)}
    /\ calls' = calls \o <<"resolve_rs_file_deps", "find_unsafe">>
    /\ faults' = faults \cup {"find_unsafe"}
    /\ result' = "Err:FinderError"
    /\ pc' = "done"
    /\ UNCHANGED <<inputs, scan_details, todo, report, stdout, logVars, new_file_name>>

\* lines 139-154: both collaborators answer and ScanDetails is returned
ScanOk ==
    /\ pc = "scan"
    /\ compile_options' = {build_compile_options(args.features_args)}
    /\ calls' = calls \o <<"resolve_rs_file_deps", "find_unsafe">>
    /\ \E used \in SUBSET Files :
       \E ctx \in {c \in GeigerContexts : WellFormedContext(c)} :
           scan_details' = {[rs_files_used |-> used, geiger_context |-> ctx]}
    /\ pc' = "report"
    /\ UNCHANGED <<inputs, result, todo, report, stdout, logVars, faults, new_file_name>>

(***************************************************************************)
(* scan_to_report.                                                         *)
(***************************************************************************)
\* lines 169-175: the empty report and the enumeration of the packages
BeginLoop ==
    /\ pc = "report"
    /\ report' = {DefaultReport}
    /\ todo' = package_metrics(unwrap(scan_details).geiger_context, graph, root_package_id)
    /\ calls' = Append(calls, "package_metrics")
    /\ pc' = "loop"
    /\ UNCHANGED <<inputs, result, compile_options, scan_details, stdout, logVars,
                   faults, new_file_name>>

\* lines 170-189: one package is classified
LoopStep ==
    /\ pc = "loop"
    /\ \E item \in todo :
        /\ report' = {loop_body(unwrap(report), item, unwrap(scan_details).rs_files_used)}
        /\ todo' = todo \ {item}
    /\ UNCHANGED <<inputs, pc, result, calls, compile_options, scan_details, stdout,
                   logVars, faults, new_file_name>>

\* the report once lines 190-193 have run
with_orphans(rep, sd) ==
    [rep EXCEPT !.used_but_not_scanned_files =
        used_but_not_scanned_files(sd.geiger_context, sd.rs_files_used)]

\* lines 190-196: the orphan files, then serde_json::to_string fails and is unwrapped
OutputPanic ==
    /\ pc = "loop"
    /\ todo = {}
    /\ report' = {with_orphans(unwrap(report), unwrap(scan_details))}
    /\ calls' = calls \o <<"list_files_used_but_not_scanned", "to_string">>
    /\ faults' = faults \cup {"to_string"}
    /\ result' = "Panic"
    /\ pc' = "done"
    /\ UNCHANGED <<inputs, compile_options, scan_details, todo, stdout, logVars,
                   new_file_name>>

\* lines 190-201: the orphan files, the document on standard output, and either
\* the end of the command or the call of log_unsafe_functions
Output ==
    /\ pc = "loop"
    /\ todo = {}
    /\ report' = {with_orphans(unwrap(report), unwrap(scan_details))}
    /\ calls' = calls \o <<"list_files_used_but_not_scanned", "to_string", "println">>
    /\ stdout' = println(stdout, to_string(with_orphans(unwrap(report), unwrap(scan_details))))
    /\ IF args.unsafe_fn_log = {}
       THEN result' = "Ok" /\ pc' = "done"
       ELSE result' = result /\ pc' = "log_declared"
    /\ UNCHANGED <<inputs, compile_options, scan_details, todo, logVars, faults,
                   new_file_name>>

(***************************************************************************)
(* log_unsafe_functions.                                                   *)
(***************************************************************************)
log_path == unwrap(args.unsafe_fn_log)
declared_log == suffixed_file_name(log_path, DeclaredSuffix)
contains_log == suffixed_file_name(log_path, ContainsSuffix)

\* lines 76-77: File::create of the ".declared" file fails and ? returns
LogCreateDeclaredFail ==
    /\ pc = "log_declared"
    /\ calls' = Append(calls, "log_unsafe_functions")
    /\ faults' = faults \cup {"create"}
    /\ result' = "Err:IOError"
    /\ pc' = "done"
    /\ UNCHANGED <<inputs, compile_options, scan_details, todo, report, stdout,
                   logVars, new_file_name>>

\* lines 76-78: the ".declared" file is created and wrapped in a BufWriter
LogCreateDeclared ==
    /\ pc = "log_declared"
    /\ calls' = Append(calls, "log_unsafe_functions")
    /\ fs' = file_create(fs, declared_log)
    /\ declared_writer' = <<>>
    /\ pc' = "log_contains"
    /\ UNCHANGED <<inputs, result, compile_options, scan_details, todo, report,
                   stdout, contains_writer, log_queue, log_order, log_ret, faults,
                   new_file_name>>

\* lines 80-81: File::create of the ".contains" file fails and ? returns; the
\* empty declared_writer is dropped
LogCreateContainsFail ==
    /\ pc = "log_contains"
    /\ faults' = faults \cup {"create"}
    /\ result' = "Err:IOError"
    /\ pc' = "done"
    /\ UNCHANGED <<inputs, calls, compile_options, scan_details, todo, report,
                   stdout, logVars, new_file_name>>

\* lines 80-84: the ".contains" file is created and the iteration over
\* report.packages begins, in the order the map yields its entries
LogCreateContains ==
    /\ pc = "log_contains"
    /\ fs' = file_create(fs, contains_log)
    /\ contains_writer' = <<>>
    /\ \E order \in Perms(DOMAIN unwrap(report).packages) :
        /\ log_order' = order
        /\ log_queue' = write_calls(unwrap(report), order)
    /\ pc' = "log_write"
    /\ UNCHANGED <<inputs, result, calls, compile_options, scan_details, todo,
                   report, stdout, declared_writer, log_ret, faults, new_file_name>>

writer_of(w) == IF w = "declared" THEN declared_writer ELSE contains_writer
file_of(w) == IF w = "declared" THEN declared_log ELSE contains_log

\* the two writers, with writer w holding buf
set_writer(w, buf) ==
    /\ declared_writer' = IF w = "declared" THEN buf ELSE declared_writer
    /\ contains_writer' = IF w = "declared" THEN contains_writer ELSE buf

\* lines 86, 89: a write! that fits in the buffer
LogWriteBuffered ==
    /\ pc = "log_write"
    /\ log_queue # <<>>
    /\ LET op == Head(log_queue)
       IN  /\ Len(writer_of(op.writer)) + 1 <= BufCapacity
           /\ set_writer(op.writer, Append(writer_of(op.writer), op.line))
    /\ log_queue' = Tail(log_queue)
    /\ UNCHANGED <<inputs, pc, result, calls, compile_options, scan_details, todo,
                   report, stdout, fs, log_order, log_ret, faults, new_file_name>>

\* lines 86, 89: a write! that finds the buffer full, flushes it to the file
\* and buffers its line
LogWriteFlush ==
    /\ pc = "log_write"
    /\ log_queue # <<>>
    /\ LET op == Head(log_queue)
       IN  /\ Len(writer_of(op.writer)) + 1 > BufCapacity
           /\ fs' = file_append(fs, file_of(op.writer), writer_of(op.writer))
           /\ set_writer(op.writer, <<op.line>>)
    /\ log_queue' = Tail(log_queue)
    /\ UNCHANGED <<inputs, pc, result, calls, compile_options, scan_details, todo,
                   report, stdout, log_order, log_ret, faults, new_file_name>>

\* lines 86, 89: the flush fails after k lines; write! returns the error and ?
\* returns it from log_unsafe_functions
LogWriteFlushFail ==
    /\ pc = "log_write"
    /\ log_queue # <<>>
    /\ LET op  == Head(log_queue)
           buf == writer_of(op.writer)
       IN  /\ Len(buf) + 1 > BufCapacity
           /\ \E k \in 0..(Len(buf) - 1) :
               /\ fs' = file_append(fs, file_of(op.writer), SubSeq(buf, 1, k))
               /\ set_writer(op.writer, SubSeq(buf, k + 1, Len(buf)))
    /\ faults' = faults \cup {"write"}
    /\ log_ret' = "Err:IOError"
    /\ pc' = "log_drop"
    /\ UNCHANGED <<inputs, result, calls, compile_options, scan_details, todo,
                   report, stdout, log_queue, log_order, new_file_name>>

\* line 93: the loop is over and Ok(()) is the value returned
LogLoopEnd ==
    /\ pc = "log_write"
    /\ log_queue = <<>>
    /\ log_ret' = "Ok"
    /\ pc' = "log_drop"
    /\ UNCHANGED <<inputs, result, calls, compile_options, scan_details, todo,
                   report, stdout, fs, declared_writer, contains_writer, log_queue,
                   log_order, faults, new_file_name>>

\* line 94: the writers go out of scope.  BufWriter's drop flushes what is
\* buffered and ignores the outcome: kd and kc lines reach the files.  Then
\* lines 199-201 return the value of log_unsafe_functions.
LogDrop ==
    /\ pc = "log_drop"
    /\ \E kd \in 0..Len(declared_writer) : \E kc \in 0..Len(contains_writer) :
        /\ fs' = file_append(file_append(fs, declared_log, SubSeq(declared_writer, 1, kd)),
                             contains_log, SubSeq(contains_writer, 1, kc))
        /\ faults' = IF kd < Len(declared_writer) \/ kc < Len(contains_writer)
                     THEN faults \cup {"flush_on_drop"}
                     ELSE faults
    /\ declared_writer' = <<>>
    /\ contains_writer' = <<>>
    /\ result' = log_ret
    /\ pc' = "done"
    /\ UNCHANGED <<inputs, calls, compile_options, scan_details, todo, report,
                   stdout, log_queue, log_order, log_ret, new_file_name>>

Next ==
    \/ ScanToTable
    \/ ScanToReport
    \/ ScanOptionsPanic
    \/ ScanResolveFail
    \/ ScanFindFail
    \/ ScanOk
    \/ BeginLoop
    \/ LoopStep
    \/ OutputPanic
    \/ Output
    \/ LogCreateDeclaredFail
    \/ LogCreateDeclared
    \/ LogCreateContainsFail
    \/ LogCreateContains
    \/ LogWriteBuffered
    \/ LogWriteFlush
    \/ LogWriteFlushFail
    \/ LogLoopEnd
    \/ LogDrop

Spec == Init /\ [][Next]_vars

(***************************************************************************)
(* build_compile_options on its own, over every feature list up to         *)
(* MaxFeatures names and every pair of flags.                              *)
(***************************************************************************)
InitOpts ==
    /\ args \in [output_format : {{}}, unsafe_fn_log : {{}},
                 features_args : FeaturesArgsSet]
    /\ graph = {}
    /\ root_package_id = "p1"
    /\ pc = "build_compile_options"
    /\ Idle

\* lines 103-105: CompileOptions::new fails and is unwrapped
BuildCompileOptionsPanic ==
    /\ pc = "build_compile_options"
    /\ faults' = faults \cup {"CompileOptions::new"}
    /\ result' = "Panic"
    /\ pc' = "done"
    /\ UNCHANGED <<inputs, calls, compile_options, scan_details, todo, report,
                   stdout, logVars, new_file_name>>

\* lines 99-132: the options are built and returned
BuildCompileOptions ==
    /\ pc = "build_compile_options"
    /\ compile_options' = {build_compile_options(args.features_args)}
    /\ result' = "Ok"
    /\ pc' = "done"
    /\ UNCHANGED <<inputs, calls, scan_details, todo, report, stdout, logVars,
                   faults, new_file_name>>

NextOpts == BuildCompileOptionsPanic \/ BuildCompileOptions

SpecOpts == InitOpts /\ [][NextOpts]_vars

(***************************************************************************)
(* suffixed_file_name on its own, over every path of up to MaxPathLen      *)
(* atoms and both suffixes.                                                *)
(***************************************************************************)
InitPath ==
    /\ args \in [output_format : {{"Json"}}, unsafe_fn_log : {{p} : p \in Paths},
                 features_args : {DefaultFeaturesArgs}]
    /\ graph = {}
    /\ root_package_id = "p1"
    /\ pc = "suffixed_file_name"
    /\ Idle

\* line 57: the path has no file name and file_stem().unwrap() panics
SuffixedFileNamePanic ==
    /\ pc = "suffixed_file_name"
    /\ file_stem(log_path) = {}
    /\ result' = "Panic"
    /\ pc' = "done"
    /\ UNCHANGED <<inputs, calls, compile_options, scan_details, todo, report,
                   stdout, logVars, faults, new_file_name>>

\* lines 50-66: the derived file name, for either suffix
SuffixedFileName ==
    /\ pc = "suffixed_file_name"
    /\ file_stem(log_path) # {}
    /\ \E suffix \in Suffixes :
        new_file_name' = {[suffix |-> suffix, name |-> suffixed_file_name(log_path, suffix)]}
    /\ result' = "Ok"
    /\ pc' = "done"
    /\ UNCHANGED <<inputs, calls, compile_options, scan_details, todo, report,
                   stdout, logVars, faults>>

NextPath == SuffixedFileNamePanic \/ SuffixedFileName

SpecPath == InitPath /\ [][NextPath]_vars

(***************************************************************************)
(* Properties.                                                             *)
(***************************************************************************)
Range(seq) == {seq[i] : i \in 1..Len(seq)}

\* the aggregation loop has run to its end
LoopDone == report # {} /\ todo = {} /\ pc # "report"

\* the packages whose metrics the graph lookup finds
HasMetrics(p) == unwrap(scan_details).geiger_context[p] # {}

\* C1: once the aggregation loop has finished, every package reachable from
\* the root is a key of report.packages exactly when its metrics are present
\* and a member of report.packages_without_metrics exactly when they are
\* absent, so it is in exactly one of the two; and at every step of the loop
\* no id is in both.
C1_Partition ==
    report # {} =>
        LET rep == unwrap(report)
        IN  /\ DOMAIN rep.packages \cap rep.packages_without_metrics = {}
            /\ LoopDone =>
                \A p \in Reachable(graph, root_package_id) :
                    /\ p \in DOMAIN rep.packages <=> HasMetrics(p)
                    /\ p \in rep.packages_without_metrics <=> ~HasMetrics(p)
                    /\ (p \in DOMAIN rep.packages) # (p \in rep.packages_without_metrics)

\* a finished run over three reachable packages, some with and some without metrics
C1_Witness ==
    /\ pc = "done"
    /\ result = "Ok"
    /\ Cardinality(Reachable(graph, root_package_id)) = 3
    /\ report # {}
    /\ DOMAIN unwrap(report).packages # {}
    /\ unwrap(report).packages_without_metrics # {}

RECURSIVE SumOver(_, _)
SumOver(S, pm) ==
    IF S = {} THEN 0
    ELSE LET f == CHOOSE x \in S : TRUE
         IN  pm[f].unsafe_count + SumOver(S \ {f}, pm)

\* C2: the unsafety summary of every entry counts only the package's files
\* that are in rs_files_used: its count is the sum over those files, every
\* function it lists comes from one of them, and a file outside the
\* compiled set contributes no function.
C2_OnlyCompiledFiles ==
    report # {} =>
        \A id \in DOMAIN unwrap(report).packages :
            LET u    == unwrap(report).packages[id].unsafety
                pm   == unwrap(unwrap(scan_details).geiger_context[id])
                used == DOMAIN pm \cap unwrap(scan_details).rs_files_used
            IN  /\ u.unsafe_count = SumOver(used, pm)
                /\ Range(u.declared_unsafe_functions) =
                       UNION {Range(pm[f].declared) : f \in used}
                /\ Range(u.contains_unsafe_functions) =
                       UNION {Range(pm[f].contains) : f \in used}
                /\ \A f \in DOMAIN pm \ used :
                       /\ Range(pm[f].declared) \cap Range(u.declared_unsafe_functions) = {}
                       /\ Range(pm[f].contains) \cap Range(u.contains_unsafe_functions) = {}

\* package p1 is reported with f2 compiled and f1, which has unsafe findings, not
C2_Witness ==
    /\ pc = "done"
    /\ report # {}
    /\ "p1" \in DOMAIN unwrap(report).packages
    /\ DOMAIN unwrap(unwrap(scan_details).geiger_context["p1"]) = {"f1", "f2"}
    /\ "f2" \in unwrap(scan_details).rs_files_used
    /\ "f1" \notin unwrap(scan_details).rs_files_used

\* the files that are keys of the finder's findings
FindingsKeys ==
    {f \in Files : \E p \in Pkgs :
        /\ unwrap(scan_details).geiger_context[p] # {}
        /\ f \in DOMAIN unwrap(unwrap(scan_details).geiger_context[p])}

\* C3: used_but_not_scanned_files is empty until every package has been
\* classified, and from then on it is rs_files_used minus the files that are
\* keys of the findings: a subset of the compiled files, disjoint from the
\* files in the findings, whatever the packages' metrics.
C3_OrphanFiles ==
    report # {} =>
        LET orphans == unwrap(report).used_but_not_scanned_files
            compiled == unwrap(scan_details).rs_files_used
        IN  IF "list_files_used_but_not_scanned" \in Range(calls)
            THEN /\ todo = {}
                 /\ orphans = compiled \ FindingsKeys
                 /\ orphans \subseteq compiled
                 /\ orphans \cap FindingsKeys = {}
            ELSE orphans = {}

\* a finished report with an orphan file and a compiled file that was scanned
C3_Witness ==
    /\ pc = "done"
    /\ report # {}
    /\ unwrap(report).used_but_not_scanned_files # {}
    /\ unwrap(scan_details).rs_files_used \cap FindingsKeys # {}
    /\ unwrap(report).packages_without_metrics # {}

EndsWithFileName(path) ==
    /\ file_name(path) # {}
    /\ Len(unwrap(file_name(path))) <= Len(path)
    /\ SubSeq(path, Len(path) - Len(unwrap(file_name(path))) + 1, Len(path))
           = unwrap(file_name(path))

\* C5: for a path with a file name and a non-empty extension, the derived
\* path is the path with the suffix inserted right before ".<extension>":
\* everything up to the stem, the suffix, a dot, the extension.
C5_SuffixBeforeExtension ==
    \A n \in new_file_name :
        (/\ EndsWithFileName(log_path)
         /\ extension(log_path) # {}
         /\ unwrap(extension(log_path)) # <<>>)
        => LET ext == unwrap(extension(log_path))
           IN  n.name = SubSeq(log_path, 1, Len(log_path) - Len(ext) - 1)
                            \o n.suffix \o <<".">> \o ext

\* C6: a failure of the resolver ends the command with a ResolutionError and
\* a failure of the finder with a FinderError, each called once; no
\* ScanDetails exists, no report, no document and no log file.
C6_ScanFailureIsError ==
    /\ "resolve_rs_file_deps" \in faults => result = "Err:ResolutionError"
    /\ "find_unsafe" \in faults => result = "Err:FinderError"
    /\ faults \cap {"resolve_rs_file_deps", "find_unsafe"} # {} =>
        /\ pc = "done"
        /\ scan_details = {} /\ report = {} /\ stdout = <<>> /\ DOMAIN fs = {}
        /\ Cardinality({i \in 1..Len(calls) : calls[i] = "resolve_rs_file_deps"}) = 1
        /\ Cardinality({i \in 1..Len(calls) : calls[i] = "find_unsafe"}) <= 1

\* C7: a log file exists only in an invocation with a format selector and a
\* log path, and only after the document has been printed; an invocation
\* without a log path, without a selector or that failed before printing
\* leaves no log file.
C7_LogsOnlyAfterOutput ==
    /\ DOMAIN fs # {} =>
        /\ args.output_format # {}
        /\ args.unsafe_fn_log # {}
        /\ Len(stdout) = 1
        /\ "println" \in Range(calls)
    /\ "log_unsafe_functions" \in Range(calls) =>
        \E i, j \in 1..Len(calls) :
            i < j /\ calls[i] = "println" /\ calls[j] = "log_unsafe_functions"
    /\ (args.unsafe_fn_log = {} \/ args.output_format = {} \/ stdout = <<>>) =>
        DOMAIN fs = {}

\* both log files exist after the document and one of them has a line
C7_Witness ==
    /\ pc = "done"
    /\ result = "Ok"
    /\ args.unsafe_fn_log # {}
    /\ DOMAIN fs = {declared_log, contains_log}
    /\ fs[declared_log] # <<>>
    /\ Len(stdout) = 1

\* C8: when creating or writing a log file has failed, the flush of the
\* buffered lines included, the command ends with an error and the
\* document is on standard output.
C8_LogFailureIsFatal ==
    (pc = "done" /\ faults \cap {"create", "write", "flush_on_drop"} # {}) =>
        /\ result = "Err:IOError"
        /\ Len(stdout) = 1

\* C9: the options built have the input's features, element for element in
\* the same order, and the input's two flags; the arguments are never changed.
C9_OptionsVerbatim ==
    /\ [](\A co \in compile_options :
            /\ Len(co.features) = Len(args.features_args.features)
            /\ \A i \in 1..Len(co.features) :
                   co.features[i] = args.features_args.features[i]
            /\ co.all_features = args.features_args.all_features
            /\ co.no_default_features = args.features_args.no_default_features)
    /\ [][args' = args]_vars

\* options built from a list with an empty name and a repeated name, both flags set
C9_Witness ==
    /\ compile_options # {}
    /\ args.features_args.features = <<"a", "", "a">>
    /\ args.features_args.all_features
    /\ args.features_args.no_default_features

\* the lines the iteration order gives for one of the two lists
ExpectedLines(rep, order, which) ==
    Flatten([i \in 1..Len(order) |->
        LET u == rep.packages[order[i]].unsafety
            l == IF which = "declared" THEN u.declared_unsafe_functions
                 ELSE u.contains_unsafe_functions
        IN  [j \in 1..Len(l) |-> <<PkgName(order[i]), l[j]>>]])

\* C10: when log_unsafe_functions has returned Ok, both files exist, the
\* ".declared" file holds one line per declared unsafe function of every
\* entry and the ".contains" file one per contained one, in list order, and
\* nothing else.
C10_LogContents ==
    (pc = "done" /\ result = "Ok" /\ "log_unsafe_functions" \in Range(calls)) =>
        /\ DOMAIN fs = {declared_log, contains_log}
        /\ fs[declared_log] = ExpectedLines(unwrap(report), log_order, "declared")
        /\ fs[contains_log] = ExpectedLines(unwrap(report), log_order, "contains")
====
